---- MODULE Spec2Model ----
(***************************************************************************)
(* Model of the virtual-tree reconciliation engine of Puerro:              *)
(*   vNode / h, changed, createElement, render, diff and mount             *)
(* (huerto/04/research/diffing/dist/script.bundle.js), with the demo view  *)
(* of the same file.                                                       *)
(*                                                                         *)
(* JavaScript values are tagged records (field k):                         *)
(*   null, undefined, numbers and strings (v is the printed form),         *)
(*   functions (src is the source text, env the captured variables),       *)
(*   plain objects (m maps keys to values), arrays (items),                *)
(*   element descriptions (tagName, attributes, children).                 *)
(* Host nodes are records too: text nodes (data) and elements (tagName,    *)
(* attrs, listeners, children); NoNode is what childNodes[i] yields        *)
(* outside the list.                                                       *)
(***************************************************************************)
EXTENDS Integers, Sequences, FiniteSets, TLC

VARIABLES
  \* ---- one call of diff on a host parent (specification SpecDiff)
  parent,      \* the live $parent after the call (before it while pc = "call")
  before,      \* the live $parent as it was when diff was called
  oldNode,     \* argument oldNode
  newNode,     \* argument newNode
  index,       \* argument index (0-based, as in the source)
  mutations,   \* the host mutations the call issued, in order
  threw,       \* TRUE when the call ended by an exception of the host
  pc,          \* "call" before the call, "done" after it
  \* ---- the mount points (specification Spec)
  heap,        \* the state objects: heap[ref] is the object's key/value map
  root,        \* root[m]: the live host root of mount point m
  view,        \* view[m]: the view function given to mount
  useDiffing,  \* useDiffing[m]
  mounted,     \* mounted[m]: mount(...) has run for m
  _state,      \* _state[m]: reference to the current state object
  vDom,        \* vDom[m]: the retained description
  last,        \* last[m]: what the latest setState call of m did
  calls,       \* calls[m]: number of setState calls made on m
  sync,        \* how the setState sequences of the two mounts relate
  \* ---- one call of changed, h or createElement (SpecChanged, SpecVNode,
  \* ---- SpecCreateElement)
  call,        \* the function called and its arguments
  ret,         \* what the call returned
  \* ---- the Observables (specification SpecObservable)
  value,       \* value[o]: the value Observable o holds
  listeners,   \* listeners[o]: the callbacks given to o.onChange, in order
  lastSet,     \* what the latest setValue call did
  \* ---- the ObservableList (specification SpecObservableList)
  list,        \* the array given to ObservableList (the list works on it, not on a copy)
  addListeners,\* the callbacks given to onAdd, in order
  delListeners,\* the callbacks given to onDel, in order
  lastOp       \* what the latest add or del call did

diffVars  == <<parent, before, oldNode, newNode, index, mutations, threw, pc>>
mountVars == <<heap, root, view, useDiffing, mounted, _state, vDom, last, calls, sync>>
callVars  == <<call, ret>>
obsVars   == <<value, listeners, lastSet>>
listVars  == <<list, addListeners, delListeners, lastOp>>
utilVars  == <<callVars, obsVars, listVars>>
vars      == <<diffVars, mountVars, utilVars>>

----------------------------------------------------------------------------
(* JavaScript values *)

Null      == [k |-> "null"]
Undefined == [k |-> "undefined"]
Num(s)    == [k |-> "number", v |-> s]
Str(s)    == [k |-> "string", v |-> s]
Fn(s, e)  == [k |-> "function", src |-> s, env |-> e]
Obj(f)    == [k |-> "object", m |-> f]
Arr(s)    == [k |-> "array", items |-> s]

\* null == x
IsNullish(x) == x.k \in {"null", "undefined"}

\* typeof x
TypeOf(x) ==
  CASE x.k = "undefined" -> "undefined"
    [] x.k = "number"    -> "number"
    [] x.k = "string"    -> "string"
    [] x.k = "function"  -> "function"
    [] OTHER             -> "object"

\* x.toString() of a number, a string or a function
toString(x) ==
  CASE x.k = "function" -> x.src
    [] OTHER            -> x.v

\* obj[key]: undefined for a key the object does not have
Get(obj, key) == IF key \in DOMAIN obj.m THEN obj.m[key] ELSE Undefined

\* Object.keys(obj)
Keys(obj) == DOMAIN obj.m

EmptyObj == Obj([a \in {} |-> Null])
Obj1(a, x) == Obj([b \in {a} |-> x])

----------------------------------------------------------------------------
(* Descriptions (VNode) *)

RECURSIVE concat(_)

\* the children arguments taken as they are, arrays left as elements
concat_asGiven(nodes) == nodes

\* [].concat(...nodes): array arguments are spliced in, one level deep
concat(nodes) ==
  IF nodes = <<>> THEN <<>>
  ELSE (IF Head(nodes).k = "array" THEN Head(nodes).items ELSE <<Head(nodes)>>)
       \o concat(Tail(nodes))

\* vNode(tagName, attributes, ...nodes)
vNode(tagName, attributes, nodes) ==
  [k          |-> "vnode",
   tagName    |-> tagName,
   attributes |-> IF IsNullish(attributes) THEN EmptyObj ELSE attributes,
   children   |-> concat(nodes)]

h(tagName, attributes, nodes) == vNode(tagName, attributes, nodes)

\* node.name, for the properties changed and diff read: a description has
\* tagName, attributes and children and nothing else; a leaf has none of them
Prop(node, name) ==
  IF node.k = "vnode" /\ name \in {"tagName", "attributes", "children"}
  THEN node[name]
  ELSE Undefined

\* !!x for the values changed tests
Truthy(x) == x.k \in {"object", "array", "function", "vnode"}

\* (null == x ? '' : x).toString()
Normalized(x) == IF IsNullish(x) THEN "" ELSE toString(x)

\* nodeChanged without the comparison of the two typeof results
nodeChanged_noTypeof(node1, node2) ==
  \/ (TypeOf(node1) \in {"string", "number"} /\ node1 # node2)
  \/ Prop(node1, "type") # Prop(node2, "type")

nodeChanged(node1, node2) ==
  \/ TypeOf(node1) # TypeOf(node2)
  \/ (TypeOf(node1) \in {"string", "number"} /\ node1 # node2)
  \/ Prop(node1, "type") # Prop(node2, "type")

attributesChanged(node1, node2) ==
  LET a1 == Prop(node1, "attributes")
      a2 == Prop(node2, "attributes")
  IN /\ Truthy(a1)
     /\ Truthy(a2)
     /\ \/ Cardinality(Keys(a1)) # Cardinality(Keys(a2))
        \/ \E a \in Keys(a1) :
             /\ Get(a1, a) # Get(a2, a)
             /\ Normalized(Get(a1, a)) # Normalized(Get(a2, a))

\* changed(node1, node2)
changed(node1, node2) == nodeChanged(node1, node2) \/ attributesChanged(node1, node2)

----------------------------------------------------------------------------
(* The host tree *)

NoNode == [k |-> "none"]
TextNode(s) == [k |-> "text", data |-> s]

\* document.createTextNode(x): the data is the string form of x
createTextNode(x) == TextNode(toString(x))

\* createElement without the filter on null and undefined values (as in the
\* copy of src/unnamed/part_000): setAttribute is given null
createElement_unfiltered(tagName, attributes) ==
  LET isFn(key) == TypeOf(Get(attributes, key)) = "function"
      string(x) == IF IsNullish(x) THEN x.k ELSE toString(x)
  IN [k         |-> "element",
      tagName   |-> tagName,
      attrs     |-> [key \in {a \in Keys(attributes) : ~isFn(a)} |-> string(Get(attributes, key))],
      listeners |-> [key \in {a \in Keys(attributes) : isFn(a)} |-> Get(attributes, key)],
      children  |-> <<>>]

\* createElement(tagName, attributes)('')
createElement(tagName, attributes) ==
  LET rendered == {key \in Keys(attributes) : ~IsNullish(Get(attributes, key))}
      isFn(key) == TypeOf(Get(attributes, key)) = "function"
  IN [k         |-> "element",
      tagName   |-> tagName,
      attrs     |-> [key \in {a \in rendered : ~isFn(a)} |-> toString(Get(attributes, key))],
      listeners |-> [key \in {a \in rendered : isFn(a)} |-> Get(attributes, key)],
      children  |-> <<>>]

\* render(node)
RECURSIVE render(_)
render(node) ==
  IF IsNullish(node) THEN TextNode("")
  ELSE IF TypeOf(node) \in {"string", "number"} THEN createTextNode(node)
  ELSE [createElement(node.tagName, node.attributes) EXCEPT
          !.children = [i \in 1..Len(node.children) |-> render(node.children[i])]]

\* $parent.childNodes[i] (i is 0-based): NoNode outside the list; a text node
\* has no children
childNodes(p, i) ==
  IF p.k = "element" /\ i >= 0 /\ i < Len(p.children) THEN p.children[i + 1] ELSE NoNode

\* $parent.firstChild
firstChild(p) == childNodes(p, 0)

\* What a host call yields: the parent after it, the mutations it made (at is
\* the path of child positions from the parent of the outermost call down to
\* the node the mutation was issued on) and whether it threw.
Outcome(p, ms, err) == [p |-> p, ms |-> ms, err |-> err]
Mutation(op, i, node) == [op |-> op, at |-> <<>>, child |-> i, node |-> node]

\* $parent.appendChild(node): throws on undefined and on a text node
appendChild(p, node) ==
  IF p.k # "element" THEN Outcome(p, <<>>, TRUE)
  ELSE Outcome([p EXCEPT !.children = Append(@, node)],
               <<Mutation("appendChild", Len(p.children), node)>>, FALSE)

RemoveAt(s, i) == [j \in 1..(Len(s) - 1) |-> IF j < i THEN s[j] ELSE s[j + 1]]

\* $parent.removeChild($parent.childNodes[i]): throws when there is no such child
removeChild(p, i) ==
  IF childNodes(p, i) = NoNode THEN Outcome(p, <<>>, TRUE)
  ELSE Outcome([p EXCEPT !.children = RemoveAt(@, i + 1)],
               <<Mutation("removeChild", i, childNodes(p, i))>>, FALSE)

\* $parent.replaceChild(node, $parent.childNodes[i]): throws when there is no such child
replaceChild(p, node, i) ==
  IF childNodes(p, i) = NoNode THEN Outcome(p, <<>>, TRUE)
  ELSE Outcome([p EXCEPT !.children[i + 1] = node],
               <<Mutation("replaceChild", i, node)>>, FALSE)

----------------------------------------------------------------------------
(* diff *)

RECURSIVE diff(_, _, _, _)
RECURSIVE diffChildren(_, _, _, _, _)

\* diff with the growth case replacing the child at index instead of appending
diff_growthReplaces(p, old, new, idx) ==
  IF IsNullish(old)
  THEN (IF childNodes(p, idx) = NoNode THEN appendChild(p, render(new))
        ELSE replaceChild(p, render(new), idx))
  ELSE IF IsNullish(new) THEN removeChild(p, idx)
  ELSE IF changed(old, new) THEN replaceChild(p, render(new), idx)
  ELSE IF new.k = "vnode" THEN diffChildren(p, old, new, idx, 0)
  ELSE Outcome(p, <<>>, FALSE)

\* diff with the change case removing the child at index and appending the
\* new one at the end
diff_changedReappends(p, old, new, idx) ==
  IF IsNullish(old) THEN appendChild(p, render(new))
  ELSE IF IsNullish(new) THEN removeChild(p, idx)
  ELSE IF changed(old, new)
  THEN LET r == removeChild(p, idx)
           a == appendChild(r.p, render(new))
       IN IF r.err THEN r ELSE Outcome(a.p, r.ms \o a.ms, a.err)
  ELSE IF new.k = "vnode" THEN diffChildren(p, old, new, idx, 0)
  ELSE Outcome(p, <<>>, FALSE)

\* diff with the shrinkage case removing the first child whatever the index
diff_removesFirst(p, old, new, idx) ==
  IF IsNullish(old) THEN appendChild(p, render(new))
  ELSE IF IsNullish(new) THEN removeChild(p, 0)
  ELSE IF changed(old, new) THEN replaceChild(p, render(new), idx)
  ELSE IF new.k = "vnode" THEN diffChildren(p, old, new, idx, 0)
  ELSE Outcome(p, <<>>, FALSE)

\* newNode.children.forEach((newNode, i) => diff($parent.childNodes[index],
\* oldNode.children[i], newNode, i)), from iteration i on; p is $parent
diffChildren(p, old, new, idx, i) ==
  IF i >= Len(new.children) THEN Outcome(p, <<>>, FALSE)
  ELSE IF p.k = "none" THEN Outcome(p, <<>>, TRUE)
  ELSE
    LET c   == childNodes(p, idx)
        oc  == IF i < Len(old.children) THEN old.children[i + 1] ELSE Undefined
        sub == diff(c, oc, new.children[i + 1], i)
        p1  == IF c = NoNode THEN p ELSE [p EXCEPT !.children[idx + 1] = sub.p]
        ms1 == [j \in 1..Len(sub.ms) |-> [sub.ms[j] EXCEPT !.at = <<idx>> \o @]]
    IN IF sub.err THEN Outcome(p1, ms1, TRUE)
       ELSE LET rest == diffChildren(p1, old, new, idx, i + 1)
            IN Outcome(rest.p, ms1 \o rest.ms, rest.err)

\* diff($parent, oldNode, newNode, index)
diff(p, old, new, idx) ==
  IF IsNullish(old) THEN appendChild(p, render(new))
  ELSE IF IsNullish(new) THEN removeChild(p, idx)
  ELSE IF changed(old, new) THEN replaceChild(p, render(new), idx)
  ELSE IF new.k = "vnode" THEN diffChildren(p, old, new, idx, 0)
  ELSE Outcome(p, <<>>, FALSE)

----------------------------------------------------------------------------
(* Specification SpecDiff: one call diff($parent, oldNode, newNode, index)   *)
(* on a host parent whose child at index is render(oldNode).                 *)

MaxChildren == 2    \* longest children list of a drawn description
MaxSiblings == 2    \* live siblings of the patched child under $parent

SeqsUpTo(S, n) == UNION {[1..m -> S] : m \in 0..n}

Tags == {"div", "span"}
Leaves == {Num("1"), Num("2"), Str("1")}
AttributeMaps == {EmptyObj, Obj1("id", Num("1"))}
\* what a drawn element has as children: a leaf, an absent child, an element
\* with an absent child
ChildDescs == {Num("1"), Null, h("p", EmptyObj, <<Null>>)}
Elements ==
  {h(t, a, cs) : t \in Tags, a \in AttributeMaps, cs \in SeqsUpTo(ChildDescs, MaxChildren)}
Descs == Leaves \cup Elements

\* the j-th live sibling: told apart from the others by its number of children
Sibling(j) ==
  [k |-> "element", tagName |-> "li", attrs |-> EmptyObj.m, listeners |-> EmptyObj.m,
   children |-> [i \in 1..j |-> TextNode("")]]

HostElement(tagName, children) ==
  [k |-> "element", tagName |-> tagName, attrs |-> EmptyObj.m, listeners |-> EmptyObj.m,
   children |-> children]

\* a parent with idx siblings before the patched child and after of them after it
ParentOf(old, idx, after) ==
  HostElement("ul",
    [j \in 1..idx |-> Sibling(j)]
    \o (IF IsNullish(old) THEN <<>> ELSE <<render(old)>>)
    \o [j \in 1..after |-> Sibling(idx + j)])

MountIdle ==
  /\ heap = <<>> /\ root = <<>> /\ view = <<>> /\ useDiffing = <<>> /\ mounted = <<>>
  /\ _state = <<>> /\ vDom = <<>> /\ last = <<>> /\ calls = <<>> /\ sync = "none"

NoReturn == [k |-> "none"]
CallIdle == call = [op |-> "none"] /\ ret = NoReturn
NoCallYet == [k |-> "none"]
ObsIdle  == value = <<>> /\ listeners = <<>> /\ lastSet = NoCallYet
ListIdle == list = <<>> /\ addListeners = <<>> /\ delListeners = <<>> /\ lastOp = NoCallYet
UtilIdle == CallIdle /\ ObsIdle /\ ListIdle

InitDiff ==
  /\ oldNode \in Descs \cup {Null}
  /\ newNode \in Descs \cup {Null}
  /\ index \in 0..MaxSiblings
  /\ \E after \in 0..(MaxSiblings - index) : parent = ParentOf(oldNode, index, after)
  /\ before = parent
  /\ mutations = <<>>
  /\ threw = FALSE
  /\ pc = "call"
  /\ MountIdle
  /\ UtilIdle

\* the call diff(parent, oldNode, newNode, index)
Diff ==
  /\ pc = "call"
  /\ LET r == diff(parent, oldNode, newNode, index)
     IN /\ parent' = r.p
        /\ mutations' = r.ms
        /\ threw' = r.err
  /\ pc' = "done"
  /\ UNCHANGED <<before, oldNode, newNode, index, mountVars, utilVars>>

NextDiff == Diff

SpecDiff == InitDiff /\ [][NextDiff]_vars

----------------------------------------------------------------------------
(* Properties of diff (specification SpecDiff) *)

\* a host node without its listeners: tag, rendered attributes, ordered children
RECURSIVE Shape(_)
Shape(n) ==
  IF n.k = "element"
  THEN [k |-> "element", tagName |-> n.tagName, attrs |-> n.attrs,
        children |-> [i \in 1..Len(n.children) |-> Shape(n.children[i])]]
  ELSE n

\* a description none of whose children, at any depth, is absent
RECURSIVE NoAbsentChild(_)
NoAbsentChild(d) ==
  d.k = "vnode" =>
    \A i \in 1..Len(d.children) :
      ~IsNullish(d.children[i]) /\ NoAbsentChild(d.children[i])

Returned == pc = "done" /\ ~threw

\* C1 (patch convergence): for non-null old and new, the live child at index
\* being render(old), after diff returns the live child at index has the shape
\* of render(new). Stated on descriptions without absent children.
C1_PatchConvergence ==
  (/\ Returned
   /\ ~IsNullish(oldNode) /\ ~IsNullish(newNode)
   /\ NoAbsentChild(oldNode) /\ NoAbsentChild(newNode))
  => Shape(childNodes(parent, index)) = Shape(render(newNode))

\* C3 (idempotence): diff(root, d, d) issues no host mutation, for a leaf, an
\* element, an element with absent children and the absent description.
C3_Idempotence == (pc = "done" /\ oldNode = newNode) => mutations = <<>>

\* a mutation that touches the i-th child of the patched child: one issued
\* inside it, or a removal or replacement of it
Touches(mu, i) ==
  \/ Len(mu.at) >= 2 /\ mu.at[1] = index /\ mu.at[2] = i
  \/ mu.at = <<index>> /\ mu.child = i /\ mu.op \in {"removeChild", "replaceChild"}

\* C4 (locality): when diff descends into the patched child, a child subtree
\* whose old description equals its new description at the same position
\* receives no host mutation and keeps its position; the live siblings of the
\* patched child are untouched.
C4_Locality ==
  (/\ pc = "done"
   /\ ~IsNullish(oldNode) /\ ~IsNullish(newNode)
   /\ oldNode.k = "vnode" /\ newNode.k = "vnode"
   /\ ~changed(oldNode, newNode))
  => /\ \A i \in 0..(Len(newNode.children) - 1) :
          (i < Len(oldNode.children) /\ oldNode.children[i + 1] = newNode.children[i + 1])
          => /\ \A j \in 1..Len(mutations) : ~Touches(mutations[j], i)
             /\ childNodes(childNodes(parent, index), i)
                  = childNodes(childNodes(before, index), i)
     /\ \A i \in 0..(Len(before.children) - 1) :
          i # index => childNodes(parent, i) = childNodes(before, i)

\* C6 (growth): diff(parent, null, d) for non-null d issues exactly one host
\* mutation, an appendChild of render(d); the parent then has its k previous
\* children, unchanged and in order, followed by render(d).
C6_Growth ==
  (pc = "done" /\ IsNullish(oldNode) /\ ~IsNullish(newNode))
  => /\ ~threw
     /\ Len(mutations) = 1
     /\ mutations[1].op = "appendChild"
     /\ mutations[1].at = <<>>
     /\ mutations[1].node = render(newNode)
     /\ Len(parent.children) = Len(before.children) + 1
     /\ SubSeq(parent.children, 1, Len(before.children)) = before.children
     /\ Shape(parent.children[Len(parent.children)]) = Shape(render(newNode))

\* growth happened under a parent that had live children, with an element
C6_Witness ==
  /\ pc = "done" /\ IsNullish(oldNode) /\ newNode.k = "vnode"
  /\ Len(newNode.children) > 0
  /\ Len(before.children) > 0 /\ index < Len(before.children)
  /\ Len(mutations) = 1

\* C7 (shrinkage): diff(parent, d, null, index) for non-null d issues exactly
\* one host mutation, the removal of the live child at index; the other
\* children are untouched and keep their order.
C7_Shrinkage ==
  (pc = "done" /\ ~IsNullish(oldNode) /\ IsNullish(newNode))
  => /\ ~threw
     /\ Len(mutations) = 1
     /\ mutations[1].op = "removeChild"
     /\ mutations[1].at = <<>>
     /\ mutations[1].child = index
     /\ mutations[1].node = childNodes(before, index)
     /\ parent.children = RemoveAt(before.children, index + 1)

\* a child was removed from between two live siblings
C7_Witness ==
  /\ pc = "done" /\ oldNode.k = "vnode" /\ IsNullish(newNode)
  /\ index > 0 /\ index + 1 < Len(before.children)
  /\ Len(parent.children) = Len(before.children) - 1

----------------------------------------------------------------------------
(* The demo state and the view functions given to mount *)

NumRows == 2    \* rows of the demo table (10000 in the demo)

\* { id: i, foo: 'bar', baz: 1 }
Row(i) ==
  Obj([key \in {"id", "foo", "baz"} |->
         CASE key = "id"  -> Num(ToString(i))
           [] key = "foo" -> Str("bar")
           [] OTHER       -> Num("1")])

data == Arr([i \in 1..NumRows |-> Row(i - 1)])

\* initialState of the demo, { data, editing: null }, and one with a count and
\* a row being edited from the start
InitialStates ==
  {Obj([key \in {"data", "editing"} |-> IF key = "data" THEN data ELSE Null]),
   Obj([key \in {"data", "editing", "count"} |->
          CASE key = "data" -> data [] key = "editing" -> Row(0) [] OTHER -> Num("0")])}

\* the partial states given to setState
Partials ==
  {Obj1("editing", Row(i)) : i \in 0..(NumRows - 1)}
  \cup {Obj1("editing", Null),
        Obj1("count", Num("1")),
        Obj([key \in {"editing", "count"} |-> IF key = "editing" THEN Null ELSE Num("2")])}

\* state.editing && state.editing.id === row.id
editing(state, row) ==
  /\ ~IsNullish(Get(state, "editing"))
  /\ Get(Get(state, "editing"), "id") = Get(row, "id")

\* edit(row): a new closure at every render, over what it reads: the editing
\* entry of the state it was rendered from, the row and the mount's setState;
\* its source text is always the same
edit(state, m, row) ==
  Fn("evt => { if (!state.editing || state.editing.id !== row.id) setState({ editing: row }) }",
     [editing |-> Get(state, "editing"), setState |-> m, row |-> row])

\* tableRow(state, edit)(row)
tableRow(state, m, row) ==
  h("tr", Obj1("click", edit(state, m, row)),
    <<Arr(<<h("td", EmptyObj,
              <<IF editing(state, row)
                THEN h("input", Obj1("value", Get(row, "foo")), <<>>)
                ELSE Get(row, "foo")>>),
            h("td", EmptyObj,
              <<IF editing(state, row)
                THEN h("input", Obj1("value", Get(row, "baz")), <<>>)
                ELSE Get(row, "baz")>>)>>)>>)

\* view: the table of the demo, h('tbody', {}, state.data.map(tableRow(state, edit)))
tableView(state, m) ==
  LET rows == Get(state, "data").items
  IN h("tbody", EmptyObj, <<Arr([i \in 1..Len(rows) |-> tableRow(state, m, rows[i])])>>)

\* ({state}) => state.count: a leaf, absent while the state has no count
counterView(state, m) == Get(state, "count")

\* ({state}) => h('div', {}, state.editing ? h('p', {}, 'edit') : null, state.count)
panelView(state, m) ==
  h("div", EmptyObj,
    <<IF IsNullish(Get(state, "editing")) THEN Null ELSE h("p", EmptyObj, <<Str("edit")>>),
      Get(state, "count")>>)

\* ({state}) => h('ul', {}, rows not being edited, each as h('li', {}, row.id))
listView(state, m) ==
  LET shown(r) == ~editing(state, r)
      rows == SelectSeq(Get(state, "data").items, shown)
  IN h("ul", EmptyObj, <<Arr([i \in 1..Len(rows) |-> h("li", EmptyObj, <<Get(rows[i], "id")>>)])>>)

\* a view that calls setState while it renders, to end the editing of a row:
\* ({state, setState}) => {
\*   if (state.editing) setState({ editing: null });
\*   return h('p', {}, state.editing ? state.editing.id : 'none') }
cancelView(state, m) ==
  h("p", EmptyObj,
    <<IF IsNullish(Get(state, "editing")) THEN Str("none")
      ELSE Get(Get(state, "editing"), "id")>>)

Views == {"table", "counter", "panel", "list"}
ReentrantViews == {"cancel"}

\* view(viewParams) for the view named v, viewParams.state being state and
\* viewParams.setState the setState of mount m
View(v, state, m) ==
  CASE v = "table"   -> tableView(state, m)
    [] v = "counter" -> counterView(state, m)
    [] v = "panel"   -> panelView(state, m)
    [] v = "cancel"  -> cancelView(state, m)
    [] OTHER         -> listView(state, m)

----------------------------------------------------------------------------
(* Specification Spec: two mount points on their own host roots, both given  *)
(* the same initialState object; the second is given the view of the first   *)
(* or the table of the demo                                                  *)

MaxCalls == 2    \* setState calls made in one behaviour

Mounts == {1, 2}

\* References to state objects: InitialStateRef is the object passed to mount
\* as initialState, OwnRef(m) the object the latest setState of m created.
InitialStateRef == 0
OwnRef(m) == m
Refs == {InitialStateRef} \cup {OwnRef(m) : m \in Mounts}

NoObject == [k |-> "none"]
NoCall == [n |-> 0]
\* last[m] of a mount whose mount(...) call threw
MountThrew == [n |-> 0, err |-> TRUE]

\* vDom between the start of mount and the end of "let vDom = view(viewParams)":
\* reading or assigning it throws a ReferenceError
Uninitialized == [k |-> "uninitialized"]

\* the partial state the view named v gives to setState while it is invoked
\* with viewParams.state being state; NoObject when it makes no such call
Requested(v, state) ==
  IF v = "cancel" /\ ~IsNullish(Get(state, "editing")) THEN Obj1("editing", Null)
  ELSE NoObject

\* the host roots mount is called on: empty, or holding one child already
HostRoots == {HostElement("div", <<>>), HostElement("div", <<TextNode("loading")>>)}

DiffIdle ==
  /\ parent = NoNode /\ before = NoNode /\ oldNode = Null /\ newNode = Null
  /\ index = 0 /\ mutations = <<>> /\ threw = FALSE /\ pc = "idle"

Init ==
  /\ \E s \in InitialStates :
       heap = [r \in Refs |-> IF r = InitialStateRef THEN s ELSE NoObject]
  /\ \E r \in HostRoots : root = [m \in Mounts |-> r]
  /\ view \in {v \in [Mounts -> Views] : v[2] \in {v[1], "table"}}
  /\ useDiffing \in [Mounts -> BOOLEAN]
  /\ mounted = [m \in Mounts |-> FALSE]
  /\ _state = [m \in Mounts |-> InitialStateRef]
  /\ vDom = [m \in Mounts |-> Undefined]
  /\ last = [m \in Mounts |-> NoCall]
  /\ calls = 0
  /\ sync = [k |-> "same"]
  /\ DiffIdle
  /\ UtilIdle

\* { ...a, ...b }: the keys of both, b's value where b has the key
spread_reversed(a, b) ==
  Obj([key \in Keys(a) \cup Keys(b) |-> IF key \in Keys(a) THEN a.m[key] ELSE b.m[key]])

spread(a, b) ==
  Obj([key \in Keys(a) \cup Keys(b) |-> IF key \in Keys(b) THEN b.m[key] ELSE a.m[key]])

\* where _state = { ..._state, ...newState } puts the merged state: in a new
\* object, which only mount m refers to
mergedInto_inPlace(m) == _state[m]

mergedInto(m) == OwnRef(m)

\* vDom after the patch step: "vDom = newVDom" runs only when the patch step
\* did not throw
retained_whenDiffing(m, newVDom, err) == IF err \/ ~useDiffing[m] THEN vDom[m] ELSE newVDom

\* vDom assigned before the patch step runs
retained_beforePatch(m, newVDom, err) == newVDom

retained(m, newVDom, err) == IF err THEN vDom[m] ELSE newVDom

\* how the sequences of setState calls of the two mounts relate after mount m
\* was called with newState: the same, one mount one call ahead, or diverged
SyncAfter(m, newState, err) ==
  IF err \/ sync.k = "diverged" THEN [k |-> "diverged"]
  ELSE IF sync.k = "same" THEN [k |-> "ahead", by |-> m, partial |-> newState]
  ELSE IF sync.by # m /\ sync.partial = newState THEN [k |-> "same"]
  ELSE [k |-> "diverged"]

\* the patch step of setState: "if (useDiffing) diff($root, vDom, newVDom) else
\* $root.replaceChild(render(newVDom), $root.firstChild)" and the access to
\* vDom of "vDom = newVDom", run on what the view invocation (during) left
PatchStep(m, during, newVDom) ==
  IF during.err THEN Outcome(during.root, <<>>, TRUE)
  ELSE IF useDiffing[m]
  THEN (IF during.vDom = Uninitialized THEN Outcome(during.root, <<>>, TRUE)
        ELSE diff(during.root, during.vDom, newVDom, 0))
  ELSE LET replaced == replaceChild(during.root, render(newVDom), 0)
       IN IF during.vDom = Uninitialized THEN Outcome(replaced.p, replaced.ms, TRUE)
          ELSE replaced

\* What the invocation view(viewParams) of mount m does besides returning its
\* description, _state being the object st, vDom being vd and the host root rt
\* when it starts: nothing, or the setState call the view makes, run to its
\* end (or to its exception) before the view returns.
RECURSIVE rendering(_, _, _, _)
rendering(m, st, vd, rt) ==
  LET newState == Requested(view[m], st)
  IN IF newState = NoObject
     THEN [called |-> FALSE, state |-> st, vDom |-> vd, root |-> rt, err |-> FALSE]
     ELSE LET merged  == spread(st, newState)
              during  == rendering(m, merged, vd, rt)
              newVDom == View(view[m], merged, m)
              patched == PatchStep(m, during, newVDom)
          IN [called |-> TRUE,
              state  |-> during.state,
              vDom   |-> IF patched.err THEN during.vDom ELSE newVDom,
              root   |-> patched.p,
              err    |-> patched.err]

\* mount($root, view, initialState, useDiffing)
mount(m) ==
  /\ ~mounted[m]
  /\ last[m] = NoCall
  /\ LET during == rendering(m, heap[InitialStateRef], Uninitialized, root[m])
         description == View(view[m], heap[InitialStateRef], m)
         placed == IF during.err THEN Outcome(during.root, <<>>, TRUE)
                   ELSE IF firstChild(during.root) # NoNode
                   THEN replaceChild(during.root, render(description), 0)
                   ELSE appendChild(during.root, render(description))
     IN /\ vDom' = [vDom EXCEPT ![m] = IF placed.err THEN vDom[m] ELSE description]
        /\ root' = [root EXCEPT ![m] = placed.p]
        /\ heap' = IF during.called THEN [heap EXCEPT ![mergedInto(m)] = during.state]
                   ELSE heap
        /\ _state' = [_state EXCEPT ![m] =
                        IF during.called THEN mergedInto(m) ELSE InitialStateRef]
        /\ mounted' = [mounted EXCEPT ![m] = ~placed.err]
        /\ last' = [last EXCEPT ![m] = IF placed.err THEN MountThrew ELSE NoCall]
  /\ UNCHANGED <<view, useDiffing, calls, sync, diffVars, utilVars>>

\* setState(newState) of mount m, called from outside a render
setState(m, newState) ==
  /\ mounted[m]
  /\ calls < MaxCalls
  /\ LET merged  == spread(heap[_state[m]], newState)
         during  == rendering(m, merged, vDom[m], root[m])
         newVDom == View(view[m], merged, m)
         patched == PatchStep(m, during, newVDom)
     IN /\ heap' = [heap EXCEPT ![mergedInto(m)] = during.state]
        /\ _state' = [_state EXCEPT ![m] = mergedInto(m)]
        /\ root' = [root EXCEPT ![m] = patched.p]
        \* when the view made a setState call of its own, the vDom an
        \* exception leaves is the one that call assigned
        /\ vDom' = [vDom EXCEPT ![m] =
                      IF during.called /\ patched.err THEN during.vDom
                      ELSE retained(m, newVDom, patched.err)]
        /\ last' = [last EXCEPT ![m] =
                      [n |-> last[m].n + 1, partial |-> newState, old |-> vDom[m],
                       err |-> patched.err]]
        /\ sync' = SyncAfter(m, newState, patched.err)
  /\ calls' = calls + 1
  /\ UNCHANGED <<view, useDiffing, mounted, diffVars, utilVars>>

Next ==
  \/ \E m \in Mounts : mount(m)
  \/ \E m \in Mounts : \E newState \in Partials : setState(m, newState)

Spec == Init /\ [][Next]_vars

----------------------------------------------------------------------------
(* Properties of mount and setState (specification Spec) *)

\* the current state object of mount m
State(m) == heap[_state[m]]

\* this step is a setState call on mount m
Called(m) == last'[m].n # last[m].n

\* C2 (diffing and non-diffing mounts are equivalent): two mounts given the
\* same view and the same initial state on identical host roots, one diffing
\* and one not, have host trees of the same shape after mount and after the
\* same sequence of setState calls, none of which threw.
C2_DiffingEquivalence ==
  (/\ mounted[1] /\ mounted[2]
   /\ view[1] = view[2]
   /\ useDiffing[1] # useDiffing[2]
   /\ sync.k = "same")
  => Shape(root[1]) = Shape(root[2])

\* a description that is not absent and has no absent child at any depth
Present(d) == ~IsNullish(d) /\ NoAbsentChild(d)

\* C5 (the host follows the state): when a setState call has returned, the
\* mounted child of the host root has the shape of render(view(merged state)).
\* Stated for the first call after mount, the view having returned
\* descriptions without absent parts at mount and in the call.
C5_HostFollowsState ==
  \A m \in Mounts :
    (/\ mounted[m] /\ last[m].n = 1 /\ ~last[m].err
     /\ Present(last[m].old) /\ Present(vDom[m]))
    => Shape(firstChild(root[m])) = Shape(render(View(view[m], State(m), m)))

\* C8 (shallow merge): a setState(partial) call leaves the mount's state with
\* the keys of the former state and of partial, each key of partial mapped to
\* partial's value and every other key to its former value, and every step
\* leaves the initialState object as it was.
C8_ShallowMerge ==
  [][/\ heap'[InitialStateRef] = heap[InitialStateRef]
     /\ \A m \in Mounts :
          Called(m) =>
            LET partial == last'[m].partial
                was     == heap[_state[m]]
                now     == heap'[_state'[m]]
            IN /\ Keys(now) = Keys(was) \cup Keys(partial)
               /\ \A key \in Keys(now) :
                    Get(now, key) = IF key \in Keys(partial) THEN Get(partial, key)
                                    ELSE Get(was, key)]_vars

\* a mount's state holds a key of a former setState besides the keys of the
\* latest one and of initialState, which is as it was given
C8_Witness ==
  \E m \in Mounts :
    /\ last[m].n = 2
    /\ Keys(last[m].partial) = {"editing"}
    /\ Get(State(m), "count") = Num("1")
    /\ Get(State(m), "editing") # Get(heap[InitialStateRef], "editing")
    /\ "data" \in Keys(State(m))
    /\ "count" \notin Keys(heap[InitialStateRef])

\* C9 (retained baseline): a setState call that returns normally, diffing or
\* not, leaves as retained description the description its view invocation
\* returned, and a diffing call patches from the description retained before it.
C9_RetainedBaseline ==
  [][\A m \in Mounts :
       Called(m) =>
         /\ ~last'[m].err => vDom'[m] = View(view[m], heap'[_state'[m]], m)
         /\ useDiffing[m] => last'[m].old = vDom[m]]_vars

\* a second setState call on a mount returned, the view having changed
C9_Witness ==
  \E m \in Mounts :
    /\ last[m].n = 2 /\ ~last[m].err
    /\ last[m].old # vDom[m]
    /\ last[m].old # View(view[m], heap[InitialStateRef], m)

\* C10 (mount isolation): a setState call on one mount leaves the other
\* mount's current state, retained description and host subtree unchanged.
C10_MountIsolation ==
  [][\A m \in Mounts : \A o \in Mounts \ {m} :
       (Called(m) /\ mounted[o]) =>
         /\ _state'[o] = _state[o]
         /\ heap'[_state'[o]] = heap[_state[o]]
         /\ vDom'[o] = vDom[o]
         /\ root'[o] = root[o]]_vars

\* both mounts were given the same view, one has changed its state and the
\* other still has the initialState object as its state
C10_Witness ==
  /\ mounted[1] /\ mounted[2] /\ view[1] = view[2]
  /\ last[1].n > 0 /\ last[2].n = 0
  /\ _state[2] = InitialStateRef
  /\ State(1) # State(2)
  /\ root[1] # root[2]

----------------------------------------------------------------------------
(* Specification SpecChanged: one call changed(node1, node2)                 *)

\* true and false
Bool(b) == [k |-> "boolean", v |-> b]

\* { tagName }: an object with a tag and no attributes property, as the tests
\* of changed pass it
PlainNode(tagName) ==
  [k |-> "vnode", tagName |-> tagName, attributes |-> Undefined, children |-> Undefined]

AttributeKeys == {"test", "id"}
AttributeValues == {Num("1"), Num("2"), Str("1"), Str(""), Null}
ChangedMaps == {Obj(f) : f \in UNION {[K -> AttributeValues] : K \in SUBSET AttributeKeys}}
ChangedNodes ==
  Leaves \cup {PlainNode(t) : t \in Tags} \cup {h(t, a, <<>>) : t \in Tags, a \in ChangedMaps}

InitChanged ==
  /\ \E node1 \in ChangedNodes : \E node2 \in ChangedNodes :
       call = [op |-> "changed", node1 |-> node1, node2 |-> node2]
  /\ ret = NoReturn
  /\ DiffIdle /\ MountIdle /\ ObsIdle /\ ListIdle

\* the call changed(node1, node2)
Changed ==
  /\ call.op = "changed"
  /\ ret = NoReturn
  /\ ret' = Bool(changed(call.node1, call.node2))
  /\ UNCHANGED <<call, diffVars, mountVars, obsVars, listVars>>

NextChanged == Changed

SpecChanged == InitChanged /\ [][NextChanged]_vars

----------------------------------------------------------------------------
(* Properties of changed (specification SpecChanged) *)

IsLeaf(x) == TypeOf(x) \in {"string", "number"}

IsElement(x) == x.k = "vnode"

\* an element description without attributes: no attributes property, or an
\* empty map
AttributeLess(e) == IsElement(e) /\ (IsNullish(e.attributes) \/ Keys(e.attributes) = {})

ChangedReturned == call.op = "changed" /\ ret # NoReturn

\* C11 (shape rule of the change detector): for leaves x, y and element
\* descriptions without attributes e, f, changed(x, y) is false when x and y are
\* the same literal and true when they are different ones, changed(x, e) and
\* changed(e, x) are true, and changed(e, f) is false when e and f have the
\* same tag.
C11_ShapeRule ==
  ChangedReturned =>
    LET x == call.node1
        y == call.node2
    IN /\ (IsLeaf(x) /\ IsLeaf(y)) => ret.v = (x # y)
       /\ (IsLeaf(x) /\ AttributeLess(y)) => ret.v = TRUE
       /\ (AttributeLess(x) /\ IsLeaf(y)) => ret.v = TRUE
       /\ (AttributeLess(x) /\ AttributeLess(y) /\ x.tagName = y.tagName) => ret.v = FALSE

\* changed was called on an object with a tag only and a description of the
\* same tag with an empty attribute map, and returned false
C11_Witness ==
  /\ ChangedReturned
  /\ call.node1 = PlainNode("div")
  /\ call.node2 = h("div", EmptyObj, <<>>)
  /\ ret.v = FALSE

\* the attribute maps of both, where both are element descriptions with one
HaveAttributes ==
  /\ IsElement(call.node1) /\ IsElement(call.node2)
  /\ Truthy(call.node1.attributes) /\ Truthy(call.node2.attributes)

\* C12 (attribute rule): for two element descriptions of the same tag, changed
\* is true exactly when the attribute maps have different numbers of keys or
\* the value of some key differs after normalization (null and undefined as
\* the empty string, anything else as its string form); a map whose key set
\* differs from the other's gives true.
C12_AttributeRule ==
  (ChangedReturned /\ HaveAttributes /\ call.node1.tagName = call.node2.tagName) =>
    LET a1 == call.node1.attributes
        a2 == call.node2.attributes
    IN /\ ret.v = (\/ Cardinality(Keys(a1)) # Cardinality(Keys(a2))
                   \/ \E key \in Keys(a1) \cup Keys(a2) :
                        Normalized(Get(a1, key)) # Normalized(Get(a2, key)))
       /\ Keys(a1) # Keys(a2) => ret.v = TRUE

\* C20 (a tag change is a type change): for two element descriptions of
\* different tags, whatever their attributes, changed is true.
C20_TagChange ==
  (ChangedReturned /\ IsElement(call.node1) /\ IsElement(call.node2)
   /\ call.node1.tagName # call.node2.tagName)
  => ret.v = TRUE

----------------------------------------------------------------------------
(* Specification SpecVNode: one call h(tagName, attributes, ...nodes)        *)

MaxArgs == 2    \* children arguments given to h

\* what is passed as a children argument: a leaf, a description, arrays of
\* them, and arrays holding arrays
ChildArgs ==
  {Num("1"), h("p", EmptyObj, <<>>),
   Arr(<<>>), Arr(<<Num("1"), Str("a")>>),
   Arr(<<Arr(<<Num("1")>>)>>), Arr(<<Str("a"), Arr(<<Arr(<<Num("2")>>)>>)>>)}

\* the attributes argument: omitted, null, or a map
AttributeArgs == {Undefined, Null, EmptyObj, Obj1("id", Num("1"))}

InitVNode ==
  /\ \E t \in Tags : \E a \in AttributeArgs : \E nodes \in SeqsUpTo(ChildArgs, MaxArgs) :
       call = [op |-> "h", tagName |-> t, attributes |-> a, nodes |-> nodes]
  /\ ret = NoReturn
  /\ DiffIdle /\ MountIdle /\ ObsIdle /\ ListIdle

\* the call h(tagName, attributes, ...nodes)
VNode ==
  /\ call.op = "h"
  /\ ret = NoReturn
  /\ ret' = h(call.tagName, call.attributes, call.nodes)
  /\ UNCHANGED <<call, diffVars, mountVars, obsVars, listVars>>

NextVNode == VNode

SpecVNode == InitVNode /\ [][NextVNode]_vars

----------------------------------------------------------------------------
(* Properties of h (specification SpecVNode) *)

IsArray(x) == x.k = "array"

\* the values of s in order, every array replaced by its values, at any depth
RECURSIVE Flattened(_)
Flattened(s) ==
  IF s = <<>> THEN <<>>
  ELSE (IF IsArray(Head(s)) THEN Flattened(Head(s).items) ELSE <<Head(s)>>)
       \o Flattened(Tail(s))

\* no array among the children arguments holds an array
OneLevel(nodes) ==
  \A i \in 1..Len(nodes) :
    IsArray(nodes[i]) => \A j \in 1..Len(nodes[i].items) : ~IsArray(nodes[i].items[j])

VNodeReturned == call.op = "h" /\ ret # NoReturn

\* C13 (flattened children): whatever mix of single descriptions and arrays,
\* nested to any depth, is given to h, no element of the children of the
\* description is an array, the children are the given ones from left to
\* right, and attributes is not null.
C13_FlattenedChildren ==
  VNodeReturned =>
    /\ \A i \in 1..Len(ret.children) : ~IsArray(ret.children[i])
    /\ ret.children = Flattened(call.nodes)
    /\ ~IsNullish(ret.attributes)

\* C13 as the code has it: for children arguments that are single
\* descriptions or arrays holding no array, the children are flat and in the
\* given order; attributes is never null, and is the empty map when the
\* argument is omitted or null.
C13_FlattenedOneLevel ==
  VNodeReturned =>
    /\ OneLevel(call.nodes) =>
         /\ \A i \in 1..Len(ret.children) : ~IsArray(ret.children[i])
         /\ ret.children = Flattened(call.nodes)
    /\ ~IsNullish(ret.attributes)
    /\ IsNullish(call.attributes) => ret.attributes = EmptyObj

\* h was given a single leaf and an array of two leaves, attributes null, and
\* returned a description with three children
C13_Witness ==
  /\ VNodeReturned
  /\ call.attributes = Null
  /\ call.nodes = <<Num("1"), Arr(<<Num("1"), Str("a")>>)>>
  /\ Len(ret.children) = 3

----------------------------------------------------------------------------
(* Specification SpecRender: one call render(node) on an element description *)

ListenerKeys == {"click"}
RenderKeys == {"id", "value"} \cup ListenerKeys
RenderValues == {Null, Undefined, Fn("evt => {}", <<>>), Num("1"), Str("x")}
RenderMaps == {Obj(f) : f \in UNION {[K -> RenderValues] : K \in SUBSET RenderKeys}}

\* an element with the attribute map, alone or as the child of another one
\* with the same map
RenderNodes ==
  {h(t, a, <<>>) : t \in Tags, a \in RenderMaps}
  \cup {h(t, a, <<h("p", a, <<>>)>>) : t \in Tags, a \in RenderMaps}

InitRender ==
  /\ \E node \in RenderNodes : call = [op |-> "render", node |-> node]
  /\ ret = NoReturn
  /\ DiffIdle /\ MountIdle /\ ObsIdle /\ ListIdle

\* the call render(node)
Render ==
  /\ call.op = "render"
  /\ ret = NoReturn
  /\ ret' = render(call.node)
  /\ UNCHANGED <<call, diffVars, mountVars, obsVars, listVars>>

NextRender == Render

SpecRender == InitRender /\ [][NextRender]_vars

----------------------------------------------------------------------------
(* Properties of render (specification SpecRender) *)

\* the live element el, made from the description node, has for every key of
\* the attribute map what the value of the key asks for and nothing else,
\* and so have its children
RECURSIVE AttributesMaterialized(_, _)
AttributesMaterialized(node, el) ==
  IF ~IsElement(node) THEN TRUE
  ELSE
    /\ \A key \in Keys(node.attributes) :
         LET v == Get(node.attributes, key)
         IN CASE IsNullish(v) ->
                   key \notin DOMAIN el.attrs /\ key \notin DOMAIN el.listeners
              [] TypeOf(v) = "function" ->
                   /\ key \notin DOMAIN el.attrs
                   /\ key \in DOMAIN el.listeners /\ el.listeners[key] = v
              [] OTHER ->
                   /\ key \in DOMAIN el.attrs /\ el.attrs[key] = toString(v)
                   /\ key \notin DOMAIN el.listeners
    /\ (DOMAIN el.attrs \cup DOMAIN el.listeners) \subseteq Keys(node.attributes)
    /\ \A key \in DOMAIN el.attrs : el.attrs[key] \notin {"null", "undefined"}
    /\ Len(el.children) = Len(node.children)
    /\ \A i \in 1..Len(node.children) :
         AttributesMaterialized(node.children[i], el.children[i])

RenderReturned == call.op = "render" /\ ret # NoReturn

\* C14 (attribute materialization): when an element description is
\* materialized, a key whose value is null or undefined gives neither a host
\* attribute nor a listener, a key whose value is a function gives a listener
\* of that name and no attribute, any other key gives the host attribute of
\* that name set to the value, and no host attribute is "null" or "undefined".
C14_AttributeMaterialization ==
  RenderReturned => AttributesMaterialized(call.node, ret)

\* a description with a null id, a click callback and a value of 1 was
\* materialized
C14_Witness ==
  /\ RenderReturned
  /\ Keys(call.node.attributes) = RenderKeys
  /\ Get(call.node.attributes, "id") = Null
  /\ TypeOf(Get(call.node.attributes, "click")) = "function"
  /\ Get(call.node.attributes, "value") = Num("1")
  /\ DOMAIN ret.attrs = {"value"}
  /\ DOMAIN ret.listeners = {"click"}

----------------------------------------------------------------------------
(* Failure of the patch step (specification Spec) *)

\* C15 (non-transactional failure): when a host mutation raises during the
\* patch step of setState(partial), the call ends with the retained
\* description it had before the call, while the mount's state is the former
\* state merged with partial.
C15_NonTransactionalFailure ==
  [][\A m \in Mounts :
       (Called(m) /\ last'[m].err) =>
         LET partial == last'[m].partial
             was     == heap[_state[m]]
             now     == heap'[_state'[m]]
         IN /\ vDom'[m] = vDom[m]
            /\ Keys(now) = Keys(was) \cup Keys(partial)
            /\ \A key \in Keys(partial) : Get(now, key) = Get(partial, key)
            /\ \A key \in Keys(was) \ Keys(partial) : Get(now, key) = Get(was, key)]_vars

\* a setState call of a mount threw in its patch step: the state is no longer
\* the initial one, and the retained description is the one from before the
\* call and not the view of the state
C15_Witness ==
  \E m \in Mounts :
    /\ last[m].n > 0 /\ last[m].err
    /\ State(m) # heap[InitialStateRef]
    /\ vDom[m] = last[m].old
    /\ vDom[m] # View(view[m], State(m), m)

----------------------------------------------------------------------------
(* Specification SpecObservable: two Observables, callbacks registered with  *)
(* onChange, and setValue calls made from outside a callback                 *)

MaxListeners == 2    \* callbacks registered on one Observable or list

Observables == {1, 2}
Callbacks == {"found", "secondFound"}
ObsValues == {Str(""), Str("1"), Num("1")}

InitObservable ==
  /\ value \in [Observables -> ObsValues]
  /\ listeners = [o \in Observables |-> <<>>]
  /\ lastSet = NoCallYet
  /\ DiffIdle /\ MountIdle /\ CallIdle /\ ListIdle

\* o.onChange(callback)
onChange(o, callback) ==
  /\ Len(listeners[o]) < MaxListeners
  /\ listeners' = [listeners EXCEPT ![o] = Append(@, callback)]
  /\ UNCHANGED <<value, lastSet, diffVars, mountVars, callVars, listVars>>

\* A callback that calls setValue on the Observable it is registered on:
\* newValue => { if (newValue !== '') obs.setValue('') }
ReentrantCallbacks == {"reset"}
ResetValue == Str("")

\* listeners.forEach(notify => notify(newValue, value)) from the i-th listener
\* on, held being the value the Observable holds at that point: the
\* invocations made, in order, those of a setValue call made by a callback
\* right after the invocation of that callback, and the value held at the end
RECURSIVE dispatch(_, _, _, _)
dispatch(o, held, newValue, i) ==
  IF i > Len(listeners[o]) THEN [value |-> held, invoked |-> <<>>]
  ELSE
    LET callback == listeners[o][i]
        this  == [callback |-> callback, newValue |-> newValue, oldValue |-> held]
        \* obs.setValue(ResetValue) called by the callback: nothing when that
        \* is the value held, else a dispatch to every listener and the
        \* assignment
        inner == IF callback \in ReentrantCallbacks /\ newValue # ResetValue
                    /\ held # ResetValue
                 THEN [value |-> ResetValue,
                       invoked |-> dispatch(o, held, ResetValue, 1).invoked]
                 ELSE [value |-> held, invoked |-> <<>>]
        rest  == dispatch(o, inner.value, newValue, i + 1)
    IN [value |-> rest.value, invoked |-> <<this>> \o inner.invoked \o rest.invoked]

\* the callbacks invoked with the value assigned first: they get newValue as
\* the old value
notified_afterAssignment(o, newValue) ==
  [i \in 1..Len(listeners[o]) |->
     [callback |-> listeners[o][i], newValue |-> newValue, oldValue |-> newValue]]

\* listeners.forEach(notify => notify(newValue, value)): the invocations made,
\* in order
notified(o, newValue) == dispatch(o, value[o], newValue, 1).invoked

\* o.setValue(newValue)
setValue(o, newValue) ==
  /\ IF value[o] = newValue
     THEN /\ lastSet' = [k |-> "setValue", obs |-> o, newValue |-> newValue, invoked |-> <<>>]
          /\ value' = value
     ELSE /\ lastSet' = [k |-> "setValue", obs |-> o, newValue |-> newValue,
                         invoked |-> notified(o, newValue)]
          /\ value' = [value EXCEPT ![o] = newValue]
  /\ UNCHANGED <<listeners, diffVars, mountVars, callVars, listVars>>

NextObservable ==
  \/ \E o \in Observables : \E callback \in Callbacks : onChange(o, callback)
  \/ \E o \in Observables : \E newValue \in ObsValues : setValue(o, newValue)

SpecObservable == InitObservable /\ [][NextObservable]_vars

----------------------------------------------------------------------------
(* Properties of Observable (specification SpecObservable) *)

\* C16 (Observable notification): setValue(v) with v different from the value
\* held invokes every registered listener once, in registration order, with
\* (v, old value), and getValue() is v afterwards; setValue with the value
\* held invokes no listener and leaves the value; a setValue on one Observable
\* invokes no listener of, and leaves the value of, the other.
C16_Notification ==
  [][lastSet' # lastSet =>
       LET o == lastSet'.obs
           v == lastSet'.newValue
           invoked == lastSet'.invoked
       IN /\ value[o] # v =>
               /\ Len(invoked) = Len(listeners[o])
               /\ \A i \in 1..Len(invoked) :
                    invoked[i] = [callback |-> listeners[o][i], newValue |-> v,
                                  oldValue |-> value[o]]
               /\ value'[o] = v
          /\ value[o] = v => (invoked = <<>> /\ value'[o] = value[o])
          /\ \A p \in Observables \ {o} :
               /\ value'[p] = value[p]
               /\ \A c \in Callbacks :
                    (\A i \in 1..Len(listeners[o]) : listeners[o][i] # c)
                    => \A i \in 1..Len(invoked) : invoked[i].callback # c]_vars

\* setValue changed the value of an Observable with two different callbacks,
\* the other Observable having a callback of its own that was not invoked
C16_Witness ==
  /\ lastSet # NoCallYet
  /\ Len(lastSet.invoked) = 2
  /\ lastSet.invoked[1].callback = "secondFound"
  /\ lastSet.invoked[2].callback = "found"
  /\ lastSet.invoked[1].oldValue = Str("1")
  /\ lastSet.invoked[1].newValue = Num("1")
  /\ \E p \in Observables \ {lastSet.obs} : listeners[p] = <<"found", "found">>

----------------------------------------------------------------------------
(* Specification SpecObservableList: one ObservableList over an array, with  *)
(* callbacks registered with onAdd and onDel                                 *)

MaxLength == 3    \* longest array the list holds

Items == {Num("1"), Str("1")}
ListCallbacks == {"addCount", "delCount"}

InitObservableList ==
  /\ list \in SeqsUpTo(Items, MaxLength)
  /\ addListeners = <<>>
  /\ delListeners = <<>>
  /\ lastOp = NoCallYet
  /\ DiffIdle /\ MountIdle /\ CallIdle /\ ObsIdle

\* onAdd(listener)
onAdd(listener) ==
  /\ Len(addListeners) < MaxListeners
  /\ addListeners' = Append(addListeners, listener)
  /\ UNCHANGED <<list, delListeners, lastOp, diffVars, mountVars, callVars, obsVars>>

\* onDel(listener)
onDel(listener) ==
  /\ Len(delListeners) < MaxListeners
  /\ delListeners' = Append(delListeners, listener)
  /\ UNCHANGED <<list, addListeners, lastOp, diffVars, mountVars, callVars, obsVars>>

\* count()
count == Len(list)

\* array.indexOf(item), 0-based: the first position holding a value === item,
\* -1 when there is none
indexOf(array, item) ==
  IF \E i \in 1..Len(array) : array[i] = item
  THEN (CHOOSE i \in 1..Len(array) :
          array[i] = item /\ \A j \in 1..(i - 1) : array[j] # item) - 1
  ELSE -1

\* the listeners invoked with item, in order
called(ls, item) == [i \in 1..Len(ls) |-> [callback |-> ls[i], item |-> item]]

\* add(item)
add(item) ==
  /\ Len(list) < MaxLength
  /\ list' = Append(list, item)
  /\ lastOp' = [k |-> "add", item |-> item, invoked |-> called(addListeners, item)]
  /\ UNCHANGED <<addListeners, delListeners, diffVars, mountVars, callVars, obsVars>>

\* the array with every value === item taken out
removed_everyOccurrence(array, item) == SelectSeq(array, LAMBDA x : x # item)

\* const i = list.indexOf(item); if (i >= 0) list.splice(i, 1)
removed(array, item) ==
  LET i == indexOf(array, item)
  IN IF i >= 0 THEN RemoveAt(array, i + 1) ELSE array

\* del(item)
del(item) ==
  /\ list' = removed(list, item)
  /\ lastOp' = [k |-> "del", item |-> item, invoked |-> called(delListeners, item)]
  /\ UNCHANGED <<addListeners, delListeners, diffVars, mountVars, callVars, obsVars>>

NextObservableList ==
  \/ \E listener \in ListCallbacks : onAdd(listener)
  \/ \E listener \in ListCallbacks : onDel(listener)
  \/ \E item \in Items : add(item)
  \/ \E item \in Items : del(item)

SpecObservableList == InitObservableList /\ [][NextObservableList]_vars

----------------------------------------------------------------------------
(* Properties of ObservableList (specification SpecObservableList) *)

\* C17 (ObservableList tracks its backing array): after every add and del,
\* count() is the length of the array given to ObservableList; add(item)
\* appends item to that array and invokes every add listener once with item;
\* del(item) of an item the array holds takes exactly one occurrence of it out
\* and invokes every del listener once with item.
C17_ListTracksArray ==
  [][lastOp' # lastOp =>
       LET item    == lastOp'.item
           invoked == lastOp'.invoked
       IN /\ count' = Len(list')
          /\ lastOp'.k = "add" =>
               /\ list' = Append(list, item)
               /\ Len(invoked) = Len(addListeners)
               /\ \A i \in 1..Len(invoked) :
                    invoked[i] = [callback |-> addListeners[i], item |-> item]
          /\ (lastOp'.k = "del" /\ \E i \in 1..Len(list) : list[i] = item) =>
               /\ \E i \in 1..Len(list) : list[i] = item /\ list' = RemoveAt(list, i)
               /\ Len(invoked) = Len(delListeners)
               /\ \A i \in 1..Len(invoked) :
                    invoked[i] = [callback |-> delListeners[i], item |-> item]]_vars

\* del(1) was called on an array holding 1 twice, with two del listeners: one
\* occurrence is left
C17_Witness ==
  /\ lastOp # NoCallYet
  /\ lastOp.k = "del"
  /\ lastOp.item = Num("1")
  /\ Len(lastOp.invoked) = 2
  /\ list = <<Str("1"), Num("1")>>
  /\ count = 2

----------------------------------------------------------------------------
(* Descent and replacement in diff (specification SpecDiff) *)

\* C18 (children are reconciled across the longer list): when neither
\* description is absent and changed is false, diff goes through the positions
\* of the longer of the two children lists, so that surplus live children are
\* removed and the live element ends with as many children as the new
\* description. Stated for descriptions of the same tag without absent children.
C18_LongerChildrenList ==
  (/\ Returned
   /\ IsElement(oldNode) /\ IsElement(newNode)
   /\ oldNode.tagName = newNode.tagName
   /\ ~changed(oldNode, newNode)
   /\ NoAbsentChild(oldNode) /\ NoAbsentChild(newNode))
  => Len(childNodes(parent, index).children) = Len(newNode.children)

\* C19 (replace on change): when neither description is absent and changed is
\* true, diff issues exactly one host mutation, the replacement of the live
\* child at index by render(newNode); it does not descend, and the other
\* children of the parent are as they were.
C19_ReplaceOnChange ==
  (pc = "done" /\ ~IsNullish(oldNode) /\ ~IsNullish(newNode) /\ changed(oldNode, newNode))
  => /\ ~threw
     /\ mutations = <<[op |-> "replaceChild", at |-> <<>>, child |-> index,
                       node |-> render(newNode)]>>
     /\ childNodes(parent, index) = render(newNode)
     /\ Len(parent.children) = Len(before.children)
     /\ \A i \in 1..Len(before.children) :
          i # index + 1 => parent.children[i] = before.children[i]

\* diff replaced a text node standing between two siblings by an element with
\* children
C19_Witness ==
  /\ pc = "done"
  /\ index = 1
  /\ Len(before.children) = 3
  /\ IsLeaf(oldNode)
  /\ IsElement(newNode) /\ Len(newNode.children) = 2
  /\ Len(mutations) = 1
  /\ childNodes(parent, 1) = render(newNode)
  /\ childNodes(parent, 1) # childNodes(before, 1)

----------------------------------------------------------------------------
(* Symmetry of changed (specification SpecChanged) *)

\* C21 (the change detector is symmetric): for any two descriptions a and b,
\* leaves or elements, with attribute maps that may hold null values,
\* changed(a, b) equals changed(b, a).
C21_Symmetry ==
  ChangedReturned => ret.v = changed(call.node2, call.node1)

----------------------------------------------------------------------------
(* del of an item the array does not hold (specification SpecObservableList) *)

\* C26 (del of an absent item is a no-op): del(item) for an item the array
\* does not hold leaves the array as it is and invokes no del listener.
C26_DelOfAbsentItem ==
  [][(lastOp' # lastOp /\ lastOp'.k = "del"
      /\ \A i \in 1..Len(list) : list[i] # lastOp'.item)
     => (list' = list /\ lastOp'.invoked = <<>>)]_vars

----------------------------------------------------------------------------
(* Listeners of the live tree (specification Spec) *)

\* the listeners of a live node and of its descendants, position by position
RECURSIVE ListenersOf(_)
ListenersOf(n) ==
  IF n.k = "element"
  THEN [own |-> n.listeners,
        children |-> [i \in 1..Len(n.children) |-> ListenersOf(n.children[i])]]
  ELSE [own |-> <<>>, children |-> <<>>]

\* C22 (no stale listeners): after a setState call on a diffing mount has
\* returned, every listener attached to a live host node is the callback the
\* retained description carries at that position, so that no callback of an
\* earlier render, closing over an earlier state, is still attached. Stated
\* for the calls that left the live tree with the shape of the retained
\* description.
C22_NoStaleListeners ==
  \A m \in Mounts :
    (/\ mounted[m] /\ useDiffing[m]
     /\ last[m].n > 0 /\ ~last[m].err
     /\ Shape(firstChild(root[m])) = Shape(render(vDom[m])))
    => ListenersOf(firstChild(root[m])) = ListenersOf(render(vDom[m]))

----------------------------------------------------------------------------
(* Specification SpecReentrantObservable: as SpecObservable, with a callback *)
(* that calls setValue on its Observable while it is being notified          *)

NextReentrantObservable ==
  \/ \E o \in Observables : \E callback \in Callbacks \cup ReentrantCallbacks :
       onChange(o, callback)
  \/ \E o \in Observables : \E newValue \in ObsValues : setValue(o, newValue)

SpecReentrantObservable == InitObservable /\ [][NextReentrantObservable]_vars

\* the position in the invocations of the latest one of callback c
LatestOf(invoked, c) ==
  CHOOSE i \in 1..Len(invoked) :
    /\ invoked[i].callback = c
    /\ \A j \in (i + 1)..Len(invoked) : invoked[j].callback # c

\* C25 (listeners end consistent under re-entrancy): when the outermost
\* setValue call on an Observable has returned, a listener having called
\* setValue on the same Observable during the dispatch or not, the new value
\* most recently delivered to each listener is the value getValue() returns.
C25_ListenersEndConsistent ==
  lastSet # NoCallYet =>
    \A c \in Callbacks \cup ReentrantCallbacks :
      (\E i \in 1..Len(lastSet.invoked) : lastSet.invoked[i].callback = c)
      => lastSet.invoked[LatestOf(lastSet.invoked, c)].newValue = value[lastSet.obs]

----------------------------------------------------------------------------
(* Specification SpecReentrant: the mount points of Spec, given a view that  *)
(* calls setState while it renders                                           *)

InitReentrant ==
  /\ \E s \in InitialStates :
       heap = [r \in Refs |-> IF r = InitialStateRef THEN s ELSE NoObject]
  /\ \E r \in HostRoots : root = [m \in Mounts |-> r]
  /\ view \in [Mounts -> ReentrantViews]
  /\ useDiffing \in [Mounts -> BOOLEAN]
  /\ mounted = [m \in Mounts |-> FALSE]
  /\ _state = [m \in Mounts |-> InitialStateRef]
  /\ vDom = [m \in Mounts |-> Undefined]
  /\ last = [m \in Mounts |-> NoCall]
  /\ calls = 0
  /\ sync = [k |-> "same"]
  /\ DiffIdle
  /\ UtilIdle

SpecReentrant == InitReentrant /\ [][Next]_vars

\* C23 (re-entrant setState keeps host and state consistent): when a setState
\* call has returned, the view having called setState while it rendered or
\* not, the retained description is the view of the mount's current state and
\* the mounted child of the host root has its shape.
C23_ReentrantSetState ==
  \A m \in Mounts :
    (mounted[m] /\ last[m].n > 0 /\ ~last[m].err)
    => /\ vDom[m] = View(view[m], State(m), m)
       /\ Shape(firstChild(root[m])) = Shape(render(vDom[m]))

\* C24 (setState during the initial mount is safe): mount returns normally,
\* diffing or not, the first view invocation having called setState or not,
\* and leaves the host root with one child, which has the shape of the
\* retained description.
C24_SetStateDuringMount ==
  \A m \in Mounts :
    /\ last[m] # MountThrew
    /\ (mounted[m] /\ last[m].n = 0) =>
         /\ Len(root[m].children) = 1
         /\ Shape(firstChild(root[m])) = Shape(render(vDom[m]))

====
